---- MODULE Spec2Model ----
(***************************************************************************)
(* Model of the execution substrate of Leviathan_Kernel.cpp: the task      *)
(* graph (TaskGraph), the four-band scheduler (MLFQScheduler), the worker  *)
(* pool (ExecutionEngine::worker_loop) and the facade's submit_task.       *)
(*                                                                         *)
(* A TaskContext is a heap object; the model keeps the heap as the         *)
(* sequence ctx and names a context by its index (the shared_ptr).  The    *)
(* registry tasks_ is a function from the registered ids to such handles.  *)
(* Every step of the model is one critical section of the code (one lock   *)
(* acquisition) or one unlocked store.                                     *)
(*                                                                         *)
(* The module also models the three bounded structures the kernel owns:    *)
(* the receive ring of NetworkInterface, the log buffer of KernelLogger    *)
(* and the free list of SlabAllocator.                                     *)
(***************************************************************************)
EXTENDS Integers, Sequences, FiniteSets, TLC

\* ------------------------------------------------------------------ bounds
\* Number of TaskContext objects constructed in a run.
MaxTasks == 2
\* Number of edges add_dependency may register in a run.
MaxEdges == 1
\* Largest worker count the engine is constructed with.
NWorkers == 2
\* Dependents of the parent in the fan-out graph.
MaxFan == 2
\* Slots of the receive ring (LEVIATHAN_NET_RING_SIZE, scaled down).
RingSize == 3
\* Entries the log buffer keeps (max_buffer_size_, scaled down).
LogCapacity == 2
\* Objects carved from one page of the slab (BlockSize / ObjectSize).
BlocksPerPage == 2
\* Pages the slab may come to own in a run.
MaxPages == 2
\* deallocate calls in a run that name an address already free.
MaxDoubleFrees == 1
\* Direct calls of TaskGraph::complete_task in a run.
MaxCompletes == 2

Workers == 1..NWorkers
\* submit_task is called from the main thread (run_simulation).
Callers == {"main"}
\* submit_task is public: the threads that may be inside it at once.
AllCallers == {"main", "shell"}
Ids == 1..MaxTasks
Bands == 0..3
NoTask == 0

Priorities == {"LOW", "NORMAL", "HIGH", "REALTIME"}
TaskStates == {"PENDING", "READY", "RUNNING", "COMPLETED", "FAILED", "BLOCKED"}
Terminal == {"COMPLETED", "FAILED"}
\* What invoking a work closure can do: return, throw something derived from
\* std::exception, or throw any other object.
WorkOutcomes == {"returns", "throws_std_exception", "throws_other"}
Failures == {"throws_std_exception", "throws_other"}

VARIABLES
    ctx,         \* the TaskContext objects, by handle
    tasks_,      \* TaskGraph::tasks_ : registered id -> handle
    id_gen_,     \* LeviathanKernel::id_gen_
    queues_,     \* MLFQScheduler::queues_ : band -> deque of handles
    wpc,         \* worker -> position in worker_loop
    wband,       \* worker -> band get_next probes next
    wtask,       \* worker -> the task it holds
    new_ready,   \* worker -> dependents complete_task returned, not yet submitted
    cpc,         \* caller -> position in submit_task
    ctask,       \* caller -> the context submit_task constructed
    terminated,  \* std::terminate was called: the process is gone
    threads,     \* the engine's worker count (constructor argument)
    subSeq,      \* history: band -> handles in the order their submit completed
    ngot,        \* history: band -> number of tasks get_next returned from it
    runs,        \* history: handle -> number of invocations of its work
    overlap,     \* history: worker -> a submit completed during its current scan
    late,        \* history: worker -> a submit went to a band its scan had passed
    outcome      \* history: handle -> what the last invocation of its work did

\* The state of the task graph, the scheduler, the engine and the facade.
kernelVars == <<ctx, tasks_, id_gen_, queues_, wpc, wband, wtask, new_ready, cpc, ctask,
                terminated, threads, subSeq, ngot, runs, overlap, late, outcome>>

VARIABLES
    graph_ret    \* history: the last add_dependency call and what it reported

VARIABLES
    rx_ring_,    \* NetworkInterface::rx_ring_ : slot -> Packet
    rx_head_,    \* NetworkInterface::rx_head_
    rx_tail_,    \* NetworkInterface::rx_tail_
    net_ret,     \* what the last receive_packet / pop_packet call did
    stats_pc,    \* position of the thread inside NetworkInterface::stats
    stats_h,     \* the value stats loaded from rx_head_
    stats_t,     \* the value stats loaded from rx_tail_
    stats_count, \* the depth stats computed last
    rx_accepted, \* history: the packets stored, in the order they were stored
    rx_nrecv,    \* history: number of receive_packet calls
    rx_ndrop,    \* history: number of receive_packet calls that dropped
    rx_npop      \* history: number of packets pop_packet returned

ringVars == <<rx_ring_, rx_head_, rx_tail_, net_ret, stats_pc, stats_h, stats_t,
              stats_count, rx_accepted, rx_nrecv, rx_ndrop, rx_npop>>

VARIABLES
    buffer_,     \* KernelLogger::buffer_
    log_pc,      \* thread -> position inside KernelLogger::log
    log_msg,     \* thread -> the message it formatted
    log_commits  \* history: every entry pushed, in the order of the pushes

logVars == <<buffer_, log_pc, log_msg, log_commits>>

VARIABLES
    free_list_,         \* SlabAllocator::free_list_
    block_next,         \* address -> the Block::next stored at that address
    pages_,             \* SlabAllocator::pages_ (number of pages owned)
    allocated_objects_, \* SlabAllocator::allocated_objects_
    slab_ret,           \* what the last allocate / deallocate call did
    slab_live,          \* history: address -> allocations of it not yet deallocated
    slab_nalloc,        \* history: number of allocate calls
    slab_ndouble        \* history: number of deallocate calls of a free address

slabVars == <<free_list_, block_next, pages_, allocated_objects_, slab_ret,
              slab_live, slab_nalloc, slab_ndouble>>

deviceVars == <<ringVars, logVars, slabVars>>

VARIABLES
    running_,    \* ExecutionEngine::running_
    ctor_pc,     \* position of the thread inside ExecutionEngine's constructor
    dtor_pc,     \* position of the thread inside ExecutionEngine's destructor
    spawned,     \* workers_.size(): threads the constructor has started
    arrived,     \* startup_barrier_: arrivals of the current phase
    joined       \* number of workers the destructor has joined

lifeVars == <<running_, ctor_pc, dtor_pc, spawned, arrived, joined>>

VARIABLES
    graph_ncomplete  \* history: number of direct calls of TaskGraph::complete_task

callVars == <<graph_ncomplete>>

VARIABLES
    lock_owner,  \* lock -> the thread that holds it
    lk_script,   \* thread -> the lock operations left of the call it is in
    lk_held      \* thread -> the locks it holds, in the order it took them

lockVars == <<lock_owner, lk_script, lk_held>>

moreVars == <<lifeVars, callVars, lockVars>>

vars == <<kernelVars, graph_ret, deviceVars, moreVars>>

\* ------------------------------------------------------------ TaskContext
\* TaskContext::TaskContext: PENDING, no edges, counter 0.  The closure is
\* kept as the set of outcomes an invocation of it may have.
NewContext(i, p, w) ==
    [id |-> i, priority |-> p, state |-> "PENDING", work |-> w,
     dependencies |-> <<>>, unsatisfied_deps |-> 0, dependents |-> <<>>]

\* std::atomic<uint32_t> arithmetic.  A counter is kept by a representative r
\* of its value r mod 2^32, so that 0 - 1 is the representative -1 of
\* 2^32 - 1; the code only compares the old value with 1.
FetchSub1_Keep(r) == r
FetchSub1(r) == r - 1
FetchAdd1(r) == r + 1

\* ---------------------------------------------------------------- TaskGraph
Registered(T, i) == i \in DOMAIN T

add_task(T, C, h) == (C[h].id :> h) @@ T

add_dependency(T, C, parent, child) ==
    IF Registered(T, parent) /\ Registered(T, child)
    THEN LET C1 == [C  EXCEPT ![T[parent]].dependents = Append(@, child)]
             C2 == [C1 EXCEPT ![T[child]].dependencies = Append(@, parent)]
             C3 == [C2 EXCEPT ![T[child]].unsatisfied_deps = FetchAdd1(@)]
         IN  [C3 EXCEPT ![T[child]].state = "BLOCKED"]
    ELSE C

\* The loop of complete_task over the dependents of tid, in order.
RECURSIVE ReleaseDependents(_, _, _, _)
ReleaseDependents(T, C, deps, unlocked) ==
    IF deps = <<>>
    THEN [ctx |-> C, unlocked |-> unlocked]
    ELSE LET dep == T[Head(deps)]
             old == C[dep].unsatisfied_deps
             C1  == [C EXCEPT ![dep].unsatisfied_deps = FetchSub1(old)]
         IN  IF old = 1
             THEN ReleaseDependents(T, [C1 EXCEPT ![dep].state = "READY"],
                                    Tail(deps), Append(unlocked, dep))
             ELSE ReleaseDependents(T, C1, Tail(deps), unlocked)

complete_task(T, C, tid) ==
    IF ~Registered(T, tid)
    THEN [ctx |-> C, unlocked |-> <<>>]
    ELSE ReleaseDependents(T, C, C[T[tid]].dependents, <<>>)

RECURSIVE SumDependents(_, _)
SumDependents(C, n) ==
    IF n = 0 THEN 0 ELSE Len(C[n].dependents) + SumDependents(C, n - 1)

\* Edges registered so far.
NumEdges == SumDependents(ctx, Len(ctx))

\* ------------------------------------------------------------ MLFQScheduler
\* A submit that indexes the queues by the value of the Priority enumerator.
BandOf_EnumValue(p) ==
    CASE p = "LOW"      -> 0
      [] p = "NORMAL"   -> 1
      [] p = "HIGH"     -> 2
      [] OTHER          -> 3

\* The switch of MLFQScheduler::submit.
BandOf(p) ==
    CASE p = "REALTIME" -> 0
      [] p = "HIGH"     -> 1
      [] p = "NORMAL"   -> 2
      [] OTHER          -> 3

\* A submit that pushes at the front of the deque.
submit_PushFront(Q, C, h) == [Q EXCEPT ![BandOf(C[h].priority)] = <<h>> \o @]

submit(Q, C, h) == [Q EXCEPT ![BandOf(C[h].priority)] = Append(@, h)]

\* The loop of get_next: the k-th iteration (k = 0..3) probes band ScanBand(k).
ScanBand_Reversed(k) == 3 - k
ScanBand(k) == k
ProbeHit(Q, i) == Q[i] # <<>>
ProbeTask(Q, i) == Head(Q[i])
ProbePop(Q, i) == [Q EXCEPT ![i] = Tail(@)]

\* History kept when a submit to band b completes: the scans it overlaps, and
\* the scans that have already probed band b.
NoteOverlap(b) ==
    [w \in Workers |-> overlap[w] \/ (wpc[w] = "scan" /\ wband[w] >= 1)]
NoteLate(b) ==
    [w \in Workers |->
        late[w] \/ (wpc[w] = "scan" /\ \E k \in 0..(wband[w] - 1) : ScanBand(k) = b)]

\* -------------------------------------------------- LeviathanKernel::submit_task
\* id_gen_.fetch_add(1): the value left in the generator.  TaskID is 64 bits
\* wide; 2^64 calls are out of reach of a run.
NextId_Same(g) == g
NextId(g) == g + 1

\* id_gen_.fetch_add(1) and make_shared<TaskContext>; work is the closure.
SubmitTaskBegin(c, p, work) ==
    /\ ~terminated
    /\ cpc[c] = "idle"
    /\ Len(ctx) < MaxTasks
    /\ ctx' = Append(ctx, NewContext(id_gen_, p, work))
    /\ runs' = Append(runs, 0)
    /\ outcome' = Append(outcome, "none")
    /\ id_gen_' = NextId(id_gen_)
    /\ ctask' = [ctask EXCEPT ![c] = Len(ctx) + 1]
    /\ cpc' = [cpc EXCEPT ![c] = "add_task"]
    /\ UNCHANGED <<graph_ret, deviceVars, moreVars>>
    /\ UNCHANGED <<tasks_, queues_, wpc, wband, wtask, new_ready, terminated,
                   threads, subSeq, ngot, overlap, late>>

\* graph_.add_task(task)
SubmitTaskAdd(c) ==
    /\ ~terminated
    /\ cpc[c] = "add_task"
    /\ tasks_' = add_task(tasks_, ctx, ctask[c])
    /\ cpc' = [cpc EXCEPT ![c] = "set_ready"]
    /\ UNCHANGED <<graph_ret, deviceVars, moreVars>>
    /\ UNCHANGED <<ctx, id_gen_, queues_, wpc, wband, wtask, new_ready, ctask,
                   terminated, threads, subSeq, ngot, runs, overlap, late, outcome>>

\* task->state = TaskState::READY
SubmitTaskReady(c) ==
    /\ ~terminated
    /\ cpc[c] = "set_ready"
    /\ ctx' = [ctx EXCEPT ![ctask[c]].state = "READY"]
    /\ cpc' = [cpc EXCEPT ![c] = "submit"]
    /\ UNCHANGED <<graph_ret, deviceVars, moreVars>>
    /\ UNCHANGED <<tasks_, id_gen_, queues_, wpc, wband, wtask, new_ready, ctask,
                   terminated, threads, subSeq, ngot, runs, overlap, late, outcome>>

\* scheduler_.submit(task)
SubmitTaskSubmit(c) ==
    /\ ~terminated
    /\ cpc[c] = "submit"
    /\ queues_' = submit(queues_, ctx, ctask[c])
    /\ subSeq' = [subSeq EXCEPT ![BandOf(ctx[ctask[c]].priority)] = Append(@, ctask[c])]
    /\ overlap' = NoteOverlap(BandOf(ctx[ctask[c]].priority))
    /\ late' = NoteLate(BandOf(ctx[ctask[c]].priority))
    /\ cpc' = [cpc EXCEPT ![c] = "idle"]
    /\ ctask' = [ctask EXCEPT ![c] = NoTask]
    /\ UNCHANGED <<graph_ret, deviceVars, moreVars>>
    /\ UNCHANGED <<ctx, tasks_, id_gen_, wpc, wband, wtask, new_ready,
                   terminated, threads, ngot, runs, outcome>>

\* ------------------------------------------------- TaskGraph::add_dependency
\* What a call reports to its caller: the function is declared void and
\* throws nothing, whether or not the two ids are registered.
add_dependency_result(T, parent, child) == "void"
\* No call of add_dependency has returned yet.
NoCall == [op |-> "none", parent |-> NoTask, child |-> NoTask, result |-> "void"]

\* Called by any thread that holds the graph, at any time.
AddDependency(parent, child) ==
    /\ ~terminated
    /\ NumEdges < MaxEdges
    /\ ctx' = add_dependency(tasks_, ctx, parent, child)
    /\ graph_ret' = [op |-> "add_dependency", parent |-> parent, child |-> child,
                     result |-> add_dependency_result(tasks_, parent, child)]
    /\ UNCHANGED <<deviceVars, moreVars>>
    /\ UNCHANGED <<tasks_, id_gen_, queues_, wpc, wband, wtask, new_ready, cpc,
                   ctask, terminated, threads, subSeq, ngot, runs, overlap, late,
                   outcome>>

\* ------------------------------------------------ ExecutionEngine::worker_loop
\* while(running_): one load of the flag; the worker calls get_next, or
\* leaves the loop and its thread function returns.
LoopCheck(w) ==
    /\ ~terminated
    /\ w <= threads
    /\ wpc[w] = "loop"
    /\ wpc' = [wpc EXCEPT ![w] = IF running_ THEN "scan" ELSE "exited"]
    /\ UNCHANGED <<ctx, tasks_, id_gen_, queues_, wband, wtask, new_ready, cpc, ctask,
                   terminated, threads, subSeq, ngot, runs, overlap, late, outcome>>
    /\ UNCHANGED <<graph_ret, deviceVars, moreVars>>

\* One iteration of the loop of get_next, under the lock of the band probed.
\* When the fourth probe finds nothing the worker sleeps and goes back to
\* the test of the loop.
GetNextProbe(w) ==
    /\ ~terminated
    /\ w <= threads
    /\ wpc[w] = "scan"
    /\ IF ProbeHit(queues_, ScanBand(wband[w]))
       THEN /\ wtask' = [wtask EXCEPT ![w] = ProbeTask(queues_, ScanBand(wband[w]))]
            /\ queues_' = ProbePop(queues_, ScanBand(wband[w]))
            /\ ngot' = [ngot EXCEPT ![ScanBand(wband[w])] = @ + 1]
            /\ wpc' = [wpc EXCEPT ![w] = "got"]
            /\ wband' = [wband EXCEPT ![w] = 0]
            /\ UNCHANGED <<overlap, late>>
       ELSE /\ wband' = [wband EXCEPT ![w] = (wband[w] + 1) % 4]
            /\ wpc' = [wpc EXCEPT ![w] = IF wband[w] = 3 THEN "loop" ELSE @]
            /\ overlap' = [overlap EXCEPT ![w] = IF wband[w] = 3 THEN FALSE ELSE @]
            /\ late' = [late EXCEPT ![w] = IF wband[w] = 3 THEN FALSE ELSE @]
            /\ UNCHANGED <<wtask, queues_, ngot>>
    /\ UNCHANGED <<graph_ret, deviceVars, moreVars>>
    /\ UNCHANGED <<ctx, tasks_, id_gen_, new_ready, cpc, ctask, terminated,
                   threads, subSeq, runs, outcome>>

\* task->state = RUNNING, and the call of task->work() begins.
Dispatch(w) ==
    /\ ~terminated
    /\ w <= threads
    /\ wpc[w] = "got"
    /\ ctx' = [ctx EXCEPT ![wtask[w]].state = "RUNNING"]
    /\ runs' = [runs EXCEPT ![wtask[w]] = @ + 1]
    /\ wpc' = [wpc EXCEPT ![w] = "run"]
    /\ overlap' = [overlap EXCEPT ![w] = FALSE]
    /\ late' = [late EXCEPT ![w] = FALSE]
    /\ UNCHANGED <<graph_ret, deviceVars, moreVars>>
    /\ UNCHANGED <<tasks_, id_gen_, queues_, wband, wtask, new_ready, cpc, ctask,
                   terminated, threads, subSeq, ngot, outcome>>

\* The handler of the try block: catch (const std::exception&).
Caught(o) == o = "throws_std_exception"

\* task->work() ends: it returns, or throws into the try block.  An exception
\* no handler catches leaves the thread function: std::terminate.
Finish(w, o) ==
    /\ ~terminated
    /\ w <= threads
    /\ wpc[w] = "run"
    /\ o \in ctx[wtask[w]].work
    /\ outcome' = [outcome EXCEPT ![wtask[w]] = o]
    /\ IF o = "returns"
       THEN /\ ctx' = [ctx EXCEPT ![wtask[w]].state = "COMPLETED"]
            /\ wpc' = [wpc EXCEPT ![w] = "complete"]
            /\ UNCHANGED terminated
       ELSE IF Caught(o)
            THEN /\ ctx' = [ctx EXCEPT ![wtask[w]].state = "FAILED"]
                 /\ wpc' = [wpc EXCEPT ![w] = "complete"]
                 /\ UNCHANGED terminated
            ELSE /\ terminated' = TRUE
                 /\ UNCHANGED <<ctx, wpc>>
    /\ UNCHANGED <<graph_ret, deviceVars, moreVars>>
    /\ UNCHANGED <<tasks_, id_gen_, queues_, wband, wtask, new_ready, cpc, ctask,
                   threads, subSeq, ngot, runs, overlap, late>>

\* graph_.complete_task(task->id)
CompleteTask(w) ==
    /\ ~terminated
    /\ w <= threads
    /\ wpc[w] = "complete"
    /\ LET r == complete_task(tasks_, ctx, ctx[wtask[w]].id)
       IN  /\ ctx' = r.ctx
           /\ new_ready' = [new_ready EXCEPT ![w] = r.unlocked]
           /\ wpc' = [wpc EXCEPT ![w] = IF r.unlocked = <<>> THEN "loop" ELSE "resubmit"]
           /\ wtask' = [wtask EXCEPT ![w] = IF r.unlocked = <<>> THEN NoTask ELSE @]
    /\ UNCHANGED <<graph_ret, deviceVars, moreVars>>
    /\ UNCHANGED <<tasks_, id_gen_, queues_, wband, cpc, ctask, terminated,
                   threads, subSeq, ngot, runs, overlap, late, outcome>>

\* for(auto& t : new_ready) sched_.submit(t), one submit per step
Resubmit(w) ==
    /\ ~terminated
    /\ w <= threads
    /\ wpc[w] = "resubmit"
    /\ queues_' = submit(queues_, ctx, Head(new_ready[w]))
    /\ subSeq' = [subSeq EXCEPT ![BandOf(ctx[Head(new_ready[w])].priority)] =
                                Append(@, Head(new_ready[w]))]
    /\ overlap' = NoteOverlap(BandOf(ctx[Head(new_ready[w])].priority))
    /\ late' = NoteLate(BandOf(ctx[Head(new_ready[w])].priority))
    /\ new_ready' = [new_ready EXCEPT ![w] = Tail(@)]
    /\ wpc' = [wpc EXCEPT ![w] = IF Tail(new_ready[w]) = <<>> THEN "loop" ELSE "resubmit"]
    /\ wtask' = [wtask EXCEPT ![w] = IF Tail(new_ready[w]) = <<>> THEN NoTask ELSE @]
    /\ UNCHANGED <<graph_ret, deviceVars, moreVars>>
    /\ UNCHANGED <<ctx, tasks_, id_gen_, wband, cpc, ctask, terminated,
                   threads, ngot, runs, outcome>>

\* -------------------------------------------------------- NetworkInterface
\* sizeof(Packet::payload)
PayloadBytes == 128
\* Lengths of the strings handed to receive_packet: short, and longer than
\* the payload.
DataSizes == {1, 200}
\* Values XorShift64::next() returns.
PacketIds == {1, 2}
\* receive_packet calls in a run: enough to fill the ring and drop twice.
MaxReceives == RingSize + 2
\* A slot of rx_ring_ that receive_packet has not written.
NoPacket == [id |-> 0, size |-> 0]
\* std::min
Min(a, b) == IF a <= b THEN a ELSE b

\* (i + 1) % LEVIATHAN_NET_RING_SIZE
NextIndex(i) == (i + 1) % RingSize
\* next_head == rx_tail_
RingFull_Never(h, t) == FALSE
RingFull(h, t) == NextIndex(h) = t
\* rx_head_ == rx_tail_
RingEmpty(h, t) == h = t
\* The slot pop_packet copies: rx_ring_[rx_tail_]
PopSlot_Newest(h, t) == (h + RingSize - 1) % RingSize
PopSlot(h, t) == t
\* The packet receive_packet writes: p.id, p.size = min(data.size(), 128).
MakePacket(id, len) == [id |-> id, size |-> Min(len, PayloadBytes)]
\* stats(): the branch the comparison rx_head_ >= rx_tail_ selects, and the
\* value of the branch over the values it loads.  size_t arithmetic, kept by
\* a representative of the value mod 2^64.
stats_branch(hc, tc) == IF hc >= tc THEN "then" ELSE "else"
stats_value(branch, hv, tv) == IF branch = "then" THEN hv - tv ELSE RingSize - tv + hv

\* receive_packet(data), one critical section of ring_lock_; id is the value
\* XorShift64::next() returns in it.
ReceivePacket(id, len) ==
    /\ ~terminated
    /\ rx_nrecv < MaxReceives
    /\ rx_nrecv' = rx_nrecv + 1
    /\ IF RingFull(rx_head_, rx_tail_)
       THEN /\ net_ret' = [op |-> "receive_packet", result |-> "dropped", packet |-> NoPacket]
            /\ rx_ndrop' = rx_ndrop + 1
            /\ UNCHANGED <<rx_ring_, rx_head_, rx_accepted>>
       ELSE /\ rx_ring_' = [rx_ring_ EXCEPT ![rx_head_] = MakePacket(id, len)]
            /\ rx_head_' = NextIndex(rx_head_)
            /\ rx_accepted' = Append(rx_accepted, MakePacket(id, len))
            /\ net_ret' = [op |-> "receive_packet", result |-> "stored",
                           packet |-> MakePacket(id, len)]
            /\ UNCHANGED rx_ndrop
    /\ UNCHANGED <<rx_tail_, rx_npop, stats_pc, stats_h, stats_t, stats_count>>
    /\ UNCHANGED <<kernelVars, graph_ret, moreVars, logVars, slabVars>>

\* pop_packet(), one critical section of ring_lock_.
PopPacket ==
    /\ ~terminated
    /\ IF RingEmpty(rx_head_, rx_tail_)
       THEN /\ net_ret' = [op |-> "pop_packet", result |-> "nullopt", packet |-> NoPacket]
            /\ UNCHANGED <<rx_tail_, rx_npop>>
       ELSE /\ net_ret' = [op |-> "pop_packet", result |-> "packet",
                           packet |-> rx_ring_[PopSlot(rx_head_, rx_tail_)]]
            /\ rx_tail_' = NextIndex(rx_tail_)
            /\ rx_npop' = rx_npop + 1
    /\ UNCHANGED <<rx_ring_, rx_head_, rx_accepted, rx_nrecv, rx_ndrop,
                   stats_pc, stats_h, stats_t, stats_count>>
    /\ UNCHANGED <<kernelVars, graph_ret, moreVars, logVars, slabVars>>

\* stats() takes no lock: each mention of rx_head_ or rx_tail_ in its
\* expression is an atomic load of its own, and the two operands of an
\* operator are loaded in either order.  The first load of the comparison:
StatsCompareFirst ==
    /\ ~terminated
    /\ stats_pc = "idle"
    /\ \/ stats_h' = rx_head_ /\ stats_pc' = "cmp_h" /\ UNCHANGED stats_t
       \/ stats_t' = rx_tail_ /\ stats_pc' = "cmp_t" /\ UNCHANGED stats_h
    /\ UNCHANGED <<rx_ring_, rx_head_, rx_tail_, net_ret, stats_count, rx_accepted,
                   rx_nrecv, rx_ndrop, rx_npop>>
    /\ UNCHANGED <<kernelVars, graph_ret, moreVars, logVars, slabVars>>

\* The second load of the comparison selects the branch.
StatsCompareSecond ==
    /\ ~terminated
    /\ stats_pc \in {"cmp_h", "cmp_t"}
    /\ stats_pc' = stats_branch(IF stats_pc = "cmp_h" THEN stats_h ELSE rx_head_,
                                IF stats_pc = "cmp_t" THEN stats_t ELSE rx_tail_)
    /\ stats_h' = 0
    /\ stats_t' = 0
    /\ UNCHANGED <<rx_ring_, rx_head_, rx_tail_, net_ret, stats_count, rx_accepted,
                   rx_nrecv, rx_ndrop, rx_npop>>
    /\ UNCHANGED <<kernelVars, graph_ret, moreVars, logVars, slabVars>>

\* The first load of the branch selected.
StatsBranchFirst ==
    /\ ~terminated
    /\ stats_pc \in {"then", "else"}
    /\ \/ stats_h' = rx_head_ /\ stats_pc' = stats_pc \o "_h" /\ UNCHANGED stats_t
       \/ stats_t' = rx_tail_ /\ stats_pc' = stats_pc \o "_t" /\ UNCHANGED stats_h
    /\ UNCHANGED <<rx_ring_, rx_head_, rx_tail_, net_ret, stats_count, rx_accepted,
                   rx_nrecv, rx_ndrop, rx_npop>>
    /\ UNCHANGED <<kernelVars, graph_ret, moreVars, logVars, slabVars>>

\* The second load of the branch; count is computed and logged.
StatsBranchSecond ==
    /\ ~terminated
    /\ stats_pc \in {"then_h", "then_t", "else_h", "else_t"}
    /\ stats_count' =
          stats_value(IF stats_pc \in {"then_h", "then_t"} THEN "then" ELSE "else",
                      IF stats_pc \in {"then_h", "else_h"} THEN stats_h ELSE rx_head_,
                      IF stats_pc \in {"then_t", "else_t"} THEN stats_t ELSE rx_tail_)
    /\ stats_pc' = "idle"
    /\ stats_h' = 0
    /\ stats_t' = 0
    /\ UNCHANGED <<rx_ring_, rx_head_, rx_tail_, net_ret, rx_accepted,
                   rx_nrecv, rx_ndrop, rx_npop>>
    /\ UNCHANGED <<kernelVars, graph_ret, moreVars, logVars, slabVars>>

\* NetworkInterface after construction.
RingInit ==
    /\ rx_ring_ = [i \in 0..(RingSize - 1) |-> NoPacket]
    /\ rx_head_ = 0
    /\ rx_tail_ = 0
    /\ net_ret = [op |-> "none", result |-> "none", packet |-> NoPacket]
    /\ stats_pc = "idle"
    /\ stats_h = 0
    /\ stats_t = 0
    /\ stats_count = 0
    /\ rx_accepted = <<>>
    /\ rx_nrecv = 0
    /\ rx_ndrop = 0
    /\ rx_npop = 0

\* ------------------------------------------------------------ KernelLogger
\* The threads that call log.
Loggers == {"main", "worker"}
\* What std::vformat produces when it does not throw.
LogTexts == {"a", "b"}
\* log calls in a run: enough to evict twice.
MaxLogs == LogCapacity + 2
\* msg = std::vformat(...), or the substitute of catch (...).
FormatMessage(text, ok) == IF ok THEN text ELSE "LOG FORMAT ERROR"
\* buffer_.size() >= max_buffer_size_
AtCapacity_Above(buf) == Len(buf) > LogCapacity
AtCapacity(buf) == Len(buf) >= LogCapacity
\* if (at capacity) buffer_.pop_front(); buffer_.push_back(entry)
push_entry(buf, e) == Append(IF AtCapacity(buf) THEN Tail(buf) ELSE buf, e)
\* The LogEntry pushed: the thread id and the message (the timestamp and the
\* level are stored beside them and read by dump only).
MakeEntry(t, m) == [thread |-> t, msg |-> m]

\* log up to the console output: the message is formatted outside the lock.
LogFormat(t, text, ok) ==
    /\ ~terminated
    /\ log_pc[t] = "idle"
    /\ Len(log_commits) + Cardinality({u \in Loggers : log_pc[u] = "commit"}) < MaxLogs
    /\ log_msg' = [log_msg EXCEPT ![t] = FormatMessage(text, ok)]
    /\ log_pc' = [log_pc EXCEPT ![t] = "commit"]
    /\ UNCHANGED <<buffer_, log_commits>>
    /\ UNCHANGED <<kernelVars, graph_ret, moreVars, ringVars, slabVars>>

\* SpinGuard g(mutex_); evict; push_back.
LogCommit(t) ==
    /\ ~terminated
    /\ log_pc[t] = "commit"
    /\ buffer_' = push_entry(buffer_, MakeEntry(t, log_msg[t]))
    /\ log_commits' = Append(log_commits, MakeEntry(t, log_msg[t]))
    /\ log_msg' = [log_msg EXCEPT ![t] = ""]
    /\ log_pc' = [log_pc EXCEPT ![t] = "idle"]
    /\ UNCHANGED <<kernelVars, graph_ret, moreVars, ringVars, slabVars>>

\* KernelLogger after construction.
LogInit ==
    /\ buffer_ = <<>>
    /\ log_pc = [t \in Loggers |-> "idle"]
    /\ log_msg = [t \in Loggers |-> ""]
    /\ log_commits = <<>>

\* ----------------------------------------------------------- SlabAllocator
\* The object slots of the pages: page k holds the addresses
\* PageStart(k) .. PageStart(k) + BlocksPerPage - 1.
Addr == 1..(MaxPages * BlocksPerPage)
NullPtr == 0
PageStart(k) == (k - 1) * BlocksPerPage + 1
\* allocate calls in a run: more than the slots, so that slots are reused.
MaxAllocs == MaxPages * BlocksPerPage + 1
\* The allocator's fields as one value.
Slab == [free_list_ |-> free_list_, block_next |-> block_next, pages_ |-> pages_,
         allocated_objects_ |-> allocated_objects_]

\* expand(): a new page, its slots chained in address order, the last one to
\* the old free list; the free list now starts at the page.
expand(S) ==
    LET start == PageStart(S.pages_ + 1)
        last  == start + BlocksPerPage - 1
    IN  [S EXCEPT !.block_next = [a \in Addr |->
                        IF a >= start /\ a < last THEN a + 1
                        ELSE IF a = last THEN S.free_list_
                        ELSE S.block_next[a]],
                  !.free_list_ = start,
                  !.pages_ = @ + 1]

\* free_list_.store(block->next)
PopFree_Keep(S, block) == S.free_list_
PopFree(S, block) == S.block_next[block]
\* allocated_objects_.fetch_sub(1); size_t, kept by a representative mod 2^64.
CountFree_Skip(n) == n
CountFree(n) == n - 1

\* allocate(): the slab afterwards and the address returned.
allocate(S) ==
    LET S1 == IF S.free_list_ = NullPtr THEN expand(S) ELSE S
        block == S1.free_list_
    IN  [slab |-> [S1 EXCEPT !.free_list_ = PopFree(S1, block),
                             !.allocated_objects_ = @ + 1],
         ret |-> block]

\* deallocate(ptr)
deallocate(S, ptr) ==
    IF ptr = NullPtr THEN S
    ELSE [S EXCEPT !.block_next[ptr] = S.free_list_,
                   !.free_list_ = ptr,
                   !.allocated_objects_ = CountFree(@)]

\* The addresses reached from p along Block::next in at most n steps.
RECURSIVE Chain(_, _, _)
Chain(next, p, n) ==
    IF p = NullPtr \/ n = 0 THEN {} ELSE {p} \cup Chain(next, next[p], n - 1)
\* The addresses on the free list.
FreeList == Chain(block_next, free_list_, MaxPages * BlocksPerPage)

SlabStep(S) ==
    /\ free_list_' = S.free_list_
    /\ block_next' = S.block_next
    /\ pages_' = S.pages_
    /\ allocated_objects_' = S.allocated_objects_

\* A call of allocate, one critical section of lock_.
Allocate ==
    /\ ~terminated
    /\ slab_nalloc < MaxAllocs
    /\ free_list_ # NullPtr \/ pages_ < MaxPages
    /\ SlabStep(allocate(Slab).slab)
    /\ slab_ret' = [op |-> "allocate", ptr |-> allocate(Slab).ret]
    /\ slab_live' = [slab_live EXCEPT ![allocate(Slab).ret] = @ + 1]
    /\ slab_nalloc' = slab_nalloc + 1
    /\ UNCHANGED slab_ndouble
    /\ UNCHANGED <<kernelVars, graph_ret, moreVars, ringVars, logVars>>

\* A call of deallocate with an address allocate returned and the caller
\* has not given back.
Deallocate(ptr) ==
    /\ ~terminated
    /\ slab_live[ptr] >= 1
    /\ SlabStep(deallocate(Slab, ptr))
    /\ slab_ret' = [op |-> "deallocate", ptr |-> ptr]
    /\ slab_live' = [slab_live EXCEPT ![ptr] = @ - 1]
    /\ UNCHANGED <<slab_nalloc, slab_ndouble>>
    /\ UNCHANGED <<kernelVars, graph_ret, moreVars, ringVars, logVars>>

\* A call of deallocate with an address that is on the free list.
DoubleFree(ptr) ==
    /\ ~terminated
    /\ slab_ndouble < MaxDoubleFrees
    /\ ptr \in FreeList
    /\ SlabStep(deallocate(Slab, ptr))
    /\ slab_ret' = [op |-> "deallocate", ptr |-> ptr]
    /\ slab_ndouble' = slab_ndouble + 1
    /\ UNCHANGED <<slab_live, slab_nalloc>>
    /\ UNCHANGED <<kernelVars, graph_ret, moreVars, ringVars, logVars>>

\* The fields as their initializers leave them.
NoPages == [free_list_ |-> NullPtr, block_next |-> [a \in Addr |-> NullPtr],
            pages_ |-> 0, allocated_objects_ |-> 0]
\* SlabAllocator after construction: the constructor calls expand().
SlabInit ==
    /\ free_list_ = expand(NoPages).free_list_
    /\ block_next = expand(NoPages).block_next
    /\ pages_ = expand(NoPages).pages_
    /\ allocated_objects_ = expand(NoPages).allocated_objects_
    /\ slab_ret = [op |-> "none", ptr |-> NullPtr]
    /\ slab_live = [a \in Addr |-> 0]
    /\ slab_nalloc = 0
    /\ slab_ndouble = 0

\* The three structures after construction.
DevicesInit == RingInit /\ LogInit /\ SlabInit

\* ------------------------- ExecutionEngine: construction and destruction
\* startup_barrier_(threads + 1): the arrivals that complete the phase.
BarrierExpected_Workers(n) == n
BarrierExpected(n) == n + 1
\* arrive_and_wait returns once the phase is complete.
BarrierOpen == arrived = BarrierExpected(threads)

\* workers_.emplace_back(...): the constructor starts the next thread.
CtorSpawn ==
    /\ ~terminated
    /\ ctor_pc = "spawn"
    /\ spawned < threads
    /\ spawned' = spawned + 1
    /\ wpc' = [wpc EXCEPT ![spawned + 1] = "boot"]
    /\ UNCHANGED <<running_, ctor_pc, dtor_pc, arrived, joined>>
    /\ UNCHANGED <<ctx, tasks_, id_gen_, queues_, wband, wtask, new_ready, cpc, ctask,
                   terminated, threads, subSeq, ngot, runs, overlap, late, outcome>>
    /\ UNCHANGED <<graph_ret, deviceVars, callVars, lockVars>>

\* The constructor arrives at the barrier, after the loop that spawns.
CtorArrive ==
    /\ ~terminated
    /\ ctor_pc = "spawn"
    /\ spawned = threads
    /\ arrived' = arrived + 1
    /\ ctor_pc' = "barrier"
    /\ UNCHANGED <<running_, dtor_pc, spawned, joined>>
    /\ UNCHANGED <<kernelVars, graph_ret, deviceVars, callVars, lockVars>>

\* The constructor's arrive_and_wait returns, and the constructor with it.
CtorReturn ==
    /\ ~terminated
    /\ ctor_pc = "barrier"
    /\ BarrierOpen
    /\ ctor_pc' = "done"
    /\ UNCHANGED <<running_, dtor_pc, spawned, arrived, joined>>
    /\ UNCHANGED <<kernelVars, graph_ret, deviceVars, callVars, lockVars>>

\* worker_loop begins: the worker arrives at the barrier.
WorkerArrive(w) ==
    /\ ~terminated
    /\ wpc[w] = "boot"
    /\ arrived' = arrived + 1
    /\ wpc' = [wpc EXCEPT ![w] = "barrier"]
    /\ UNCHANGED <<running_, ctor_pc, dtor_pc, spawned, joined>>
    /\ UNCHANGED <<ctx, tasks_, id_gen_, queues_, wband, wtask, new_ready, cpc, ctask,
                   terminated, threads, subSeq, ngot, runs, overlap, late, outcome>>
    /\ UNCHANGED <<graph_ret, deviceVars, callVars, lockVars>>

\* The worker's arrive_and_wait returns: on to the test of the loop.
WorkerPass(w) ==
    /\ ~terminated
    /\ wpc[w] = "barrier"
    /\ BarrierOpen
    /\ wpc' = [wpc EXCEPT ![w] = "loop"]
    /\ UNCHANGED <<ctx, tasks_, id_gen_, queues_, wband, wtask, new_ready, cpc, ctask,
                   terminated, threads, subSeq, ngot, runs, overlap, late, outcome>>
    /\ UNCHANGED <<graph_ret, deviceVars, moreVars>>

\* ~ExecutionEngine: running_ = false.
Shutdown ==
    /\ ~terminated
    /\ ctor_pc = "done"
    /\ dtor_pc = "idle"
    /\ running_' = FALSE
    /\ dtor_pc' = "join"
    /\ UNCHANGED <<ctor_pc, spawned, arrived, joined>>
    /\ UNCHANGED <<kernelVars, graph_ret, deviceVars, callVars, lockVars>>

\* t.join() of the next worker returns: its thread function has returned.
Join ==
    /\ ~terminated
    /\ dtor_pc = "join"
    /\ joined < threads
    /\ wpc[joined + 1] = "exited"
    /\ joined' = joined + 1
    /\ UNCHANGED <<running_, ctor_pc, dtor_pc, spawned, arrived>>
    /\ UNCHANGED <<kernelVars, graph_ret, deviceVars, callVars, lockVars>>

\* The loop of joins is over: the destructor returns.
DtorReturn ==
    /\ ~terminated
    /\ dtor_pc = "join"
    /\ joined = threads
    /\ dtor_pc' = "done"
    /\ UNCHANGED <<running_, ctor_pc, spawned, arrived, joined>>
    /\ UNCHANGED <<kernelVars, graph_ret, deviceVars, callVars, lockVars>>

\* ------------------------------------------------------ the locks taken
\* The locks of the kernel: the graph's shared_mutex (always taken exclusively),
\* one SpinLock per scheduler queue, the log buffer's, the receive ring's and
\* an inode's.
GraphLock == <<"graph", 0>>

QueueLock(b) == <<"queue", b>>

LogLock == <<"log", 0>>

RingLock == <<"ring", 0>>

InodeLock == <<"inode", 0>>

Locks == {GraphLock, LogLock, RingLock, InodeLock} \cup {QueueLock(b) : b \in Bands}

\* The threads of the process: main, the detached shell thread and workers.
LockThreads == {"main", "shell", "worker"}

NoOwner == "nobody"

Acquire(l) == [op |-> "lock", l |-> l]

Release(l) == [op |-> "unlock", l |-> l]

\* A scope that opens with a guard on l and runs the lock operations inner
\* before the guard's destructor unlocks l.
SpinGuard(l, inner) == <<Acquire(l)>> \o inner \o <<Release(l)>>

\* KernelLogger::log and dump: the buffer's lock around the buffer update.
log == SpinGuard(LogLock, <<>>)

\* add_task, add_dependency and complete_task: the whole body under the
\* exclusive lock of the graph; none of them calls out.
GraphCall == SpinGuard(GraphLock, <<>>)

\* submit: the lock of the one queue the priority selects.
SubmitLocks(b) == SpinGuard(QueueLock(b), <<>>)

\* A get_next that keeps every guard until it returns (not the code's).
GetNextLocks_Holding(k) ==
    [i \in 1..(2 * (k + 1)) |->
        IF i <= k + 1 THEN Acquire(QueueLock(i - 1))
        ELSE Release(QueueLock(2 * (k + 1) - i))]

\* get_next that returns at band k (k = 3 also when every queue is empty):
\* the guard is local to one iteration of the loop, so the lock of band i is
\* released before that of band i + 1 is taken.
RECURSIVE GetNextLocks(_)
GetNextLocks(k) ==
    IF k = 0 THEN SpinGuard(QueueLock(0), <<>>)
    ELSE GetNextLocks(k - 1) \o SpinGuard(QueueLock(k), <<>>)

\* receive_packet: the ring's lock is held to the end of the function, and
\* both exits log (LOG_WARN on a full ring, LOG_TRACE after the store).
ReceivePacketLocks == SpinGuard(RingLock, log)

\* pop_packet: the ring's lock alone.
PopPacketLocks == SpinGuard(RingLock, <<>>)

\* create_file and mkdir: resolve_parent walks the path with one inode lock
\* at a time, then the directory's lock is held over the LOG_TRACE.
CreateFileLocks == SpinGuard(InodeLock, <<>>) \o SpinGuard(InodeLock, log)

\* read_file and list_dir: one inode lock at a time.
ReadFileLocks == SpinGuard(InodeLock, <<>>) \o SpinGuard(InodeLock, <<>>)

\* The calls a thread can be in.  A task body is any callable, and the ones
\* of run_simulation call create_file and receive_packet, so every thread
\* reaches every operation.
LockCalls ==
    {log, GraphCall, ReceivePacketLocks, PopPacketLocks, CreateFileLocks,
     ReadFileLocks}
    \cup {SubmitLocks(b) : b \in Bands}
    \cup {GetNextLocks(k) : k \in Bands}

LocksInit ==
    /\ lock_owner = [l \in Locks |-> NoOwner]
    /\ lk_script = [t \in LockThreads |-> <<>>]
    /\ lk_held = [t \in LockThreads |-> <<>>]

\* Thread t enters a call; it holds no lock between calls.
LockCall(t) ==
    /\ lk_script[t] = <<>>
    /\ \E s \in LockCalls : lk_script' = [lk_script EXCEPT ![t] = s]
    /\ UNCHANGED <<lock_owner, lk_held>>
    /\ UNCHANGED <<kernelVars, graph_ret, deviceVars, lifeVars, callVars>>

\* lock(): the test_and_set succeeds only on a clear flag; until then the
\* thread spins or waits, its position unchanged.
lock(t) ==
    /\ lk_script[t] # <<>>
    /\ Head(lk_script[t]).op = "lock"
    /\ lock_owner[Head(lk_script[t]).l] = NoOwner
    /\ lock_owner' = [lock_owner EXCEPT ![Head(lk_script[t]).l] = t]
    /\ lk_held' = [lk_held EXCEPT ![t] = Append(@, Head(lk_script[t]).l)]
    /\ lk_script' = [lk_script EXCEPT ![t] = Tail(@)]
    /\ UNCHANGED <<kernelVars, graph_ret, deviceVars, lifeVars, callVars>>

\* unlock(): clears the flag whoever holds it.
unlock(t) ==
    /\ lk_script[t] # <<>>
    /\ Head(lk_script[t]).op = "unlock"
    /\ lock_owner' = [lock_owner EXCEPT ![Head(lk_script[t]).l] = NoOwner]
    /\ lk_held' = [lk_held EXCEPT ![t] =
                      SelectSeq(@, LAMBDA h : h # Head(lk_script[t]).l)]
    /\ lk_script' = [lk_script EXCEPT ![t] = Tail(@)]
    /\ UNCHANGED <<kernelVars, graph_ret, deviceVars, lifeVars, callVars>>

\* ------------------------------------------------------------ specifications
\* The graph C, T, the queues Q and everything else but the engine.
StoreInit(C, T, Q, nextId) ==
    /\ ctx = C
    /\ tasks_ = T
    /\ id_gen_ = nextId
    /\ queues_ = Q
    /\ wband = [w \in Workers |-> 0]
    /\ wtask = [w \in Workers |-> NoTask]
    /\ new_ready = [w \in Workers |-> <<>>]
    /\ cpc = [c \in AllCallers |-> "idle"]
    /\ ctask = [c \in AllCallers |-> NoTask]
    /\ terminated = FALSE
    /\ threads \in Workers
    /\ subSeq = Q
    /\ ngot = [b \in Bands |-> 0]
    /\ runs = [h \in 1..Len(C) |-> 0]
    /\ overlap = [w \in Workers |-> FALSE]
    /\ late = [w \in Workers |-> FALSE]
    /\ outcome = [h \in 1..Len(C) |-> "none"]
    /\ graph_ret = NoCall
    /\ graph_ncomplete = 0
    /\ DevicesInit
    /\ LocksInit

\* The engine after construction: the workers past the start-up barrier and
\* about to test running_, on the graph C, T with the queues Q.
EngineInit(C, T, Q, nextId) ==
    /\ StoreInit(C, T, Q, nextId)
    /\ wpc = [w \in Workers |-> "loop"]
    /\ running_ = TRUE
    /\ ctor_pc = "done"
    /\ dtor_pc = "idle"
    /\ spawned = threads
    /\ arrived = BarrierExpected(threads)
    /\ joined = 0

EmptyQueues == [b \in Bands |-> <<>>]

\* LeviathanKernel after construction: empty graph and queues, id_gen_ = 1.
Init == EngineInit(<<>>, <<>>, EmptyQueues, 1)

WorkerNext ==
    \/ \E w \in Workers : LoopCheck(w)
    \/ \E w \in Workers : GetNextProbe(w)
    \/ \E w \in Workers : Dispatch(w)
    \/ \E w \in Workers, o \in WorkOutcomes : Finish(w, o)
    \/ \E w \in Workers : CompleteTask(w)
    \/ \E w \in Workers : Resubmit(w)

\* The components under every use their interfaces allow: submit_task with any
\* priority and closure, add_dependency between distinct ids at any time.
Next ==
    \/ \E c \in Callers, p \in Priorities : SubmitTaskBegin(c, p, WorkOutcomes)
    \/ \E c \in Callers : SubmitTaskAdd(c)
    \/ \E c \in Callers : SubmitTaskReady(c)
    \/ \E c \in Callers : SubmitTaskSubmit(c)
    \/ \E parent \in Ids : \E child \in Ids \ {parent} : AddDependency(parent, child)
    \/ \E w \in Workers : LoopCheck(w)
    \/ \E w \in Workers : GetNextProbe(w)
    \/ \E w \in Workers : Dispatch(w)
    \/ \E w \in Workers, o \in WorkOutcomes : Finish(w, o)
    \/ \E w \in Workers : CompleteTask(w)
    \/ \E w \in Workers : Resubmit(w)

Spec == Init /\ [][Next]_vars

\* The kernel as LeviathanKernel composes it: only submit_task reaches the
\* graph, so no task has dependencies; the closures submitted return.
NextSched ==
    \/ \E c \in Callers, p \in Priorities : SubmitTaskBegin(c, p, {"returns"})
    \/ \E c \in Callers : SubmitTaskAdd(c)
    \/ \E c \in Callers : SubmitTaskReady(c)
    \/ \E c \in Callers : SubmitTaskSubmit(c)
    \/ \E w \in Workers : LoopCheck(w)
    \/ \E w \in Workers : GetNextProbe(w)
    \/ \E w \in Workers : Dispatch(w)
    \/ \E w \in Workers, o \in WorkOutcomes : Finish(w, o)
    \/ \E w \in Workers : CompleteTask(w)

SpecSched == Init /\ [][NextSched]_vars

\* ------------------------------------------- graphs built through TaskGraph
\* A caller that composes TaskGraph, MLFQScheduler and ExecutionEngine itself
\* constructs the contexts, registers them with add_task, adds the edges with
\* add_dependency, and then hands the one task without dependencies to the
\* scheduler as submit_task does (state READY, submit).
RECURSIVE Registry(_, _)
Registry(C, n) == IF n = 0 THEN <<>> ELSE add_task(Registry(C, n - 1), C, n)

RECURSIVE WithEdges(_, _, _)
WithEdges(T, C, edges) ==
    IF edges = <<>> THEN C
    ELSE WithEdges(T, add_dependency(T, C, Head(edges)[1], Head(edges)[2]), Tail(edges))

GraphInit(C, edges, root) ==
    LET T == Registry(C, Len(C))
        G == [WithEdges(T, C, edges) EXCEPT ![T[root]].state = "READY"]
    IN  EngineInit(G, T, submit(EmptyQueues, G, T[root]), Len(C) + 1)

\* The diamond A -> {B, C} -> D (ids 1..4): B's work returns, C's work raises
\* a failure, A's work returns, D's work does anything.
DiamondContexts ==
    <<NewContext(1, "NORMAL", {"returns"}), NewContext(2, "NORMAL", {"returns"}),
      NewContext(3, "NORMAL", Failures), NewContext(4, "NORMAL", WorkOutcomes)>>
DiamondEdges == <<(<<1, 2>>), (<<1, 3>>), (<<2, 4>>), (<<3, 4>>)>>
DiamondInit == GraphInit(DiamondContexts, DiamondEdges, 1)
SpecDiamond == DiamondInit /\ [][WorkerNext]_vars

\* One parent (id 1) with MaxFan dependents (ids 2..MaxFan+1), all NORMAL.
FanContexts == [i \in 1..(MaxFan + 1) |-> NewContext(i, "NORMAL", WorkOutcomes)]
FanEdges == [i \in 1..MaxFan |-> <<1, i + 1>>]
FanInit == GraphInit(FanContexts, FanEdges, 1)
SpecFan == FanInit /\ [][WorkerNext]_vars

\* --------------------------------------------- TaskGraph called directly
\* add_task with a context the caller constructed under an id of its choice.
GraphAddTask(i, p) ==
    /\ Len(ctx) < MaxTasks
    /\ ctx' = Append(ctx, NewContext(i, p, WorkOutcomes))
    /\ tasks_' = add_task(tasks_, ctx', Len(ctx'))
    /\ runs' = Append(runs, 0)
    /\ outcome' = Append(outcome, "none")
    /\ UNCHANGED <<graph_ret, deviceVars, moreVars>>
    /\ UNCHANGED <<id_gen_, queues_, wpc, wband, wtask, new_ready, cpc, ctask,
                   terminated, threads, subSeq, ngot, overlap, late>>

\* complete_task(tid) called by a holder of the graph, for any id, any
\* number of times; the list it returns is dropped.
GraphCompleteTask(tid) ==
    /\ graph_ncomplete < MaxCompletes
    /\ ctx' = complete_task(tasks_, ctx, tid).ctx
    /\ graph_ncomplete' = graph_ncomplete + 1
    /\ UNCHANGED <<tasks_, id_gen_, queues_, wpc, wband, wtask, new_ready, cpc, ctask,
                   terminated, threads, subSeq, ngot, runs, overlap, late, outcome>>
    /\ UNCHANGED <<graph_ret, deviceVars, lifeVars, lockVars>>

NextGraph ==
    \/ \E i \in Ids, p \in Priorities : GraphAddTask(i, p)
    \/ \E parent \in Ids, child \in Ids : AddDependency(parent, child)

SpecGraph == Init /\ [][NextGraph]_vars

\* The three operations of TaskGraph in any order.
NextGraphCalls ==
    \/ \E i \in Ids, p \in Priorities : GraphAddTask(i, p)
    \/ \E parent \in Ids, child \in Ids : AddDependency(parent, child)
    \/ \E tid \in Ids : GraphCompleteTask(tid)

SpecGraphCalls == Init /\ [][NextGraphCalls]_vars

\* ------------------------------------------------- the bounded structures
\* The ring under any interleaving of receive_packet and pop_packet calls.
NextRing ==
    \/ \E id \in PacketIds, len \in DataSizes : ReceivePacket(id, len)
    \/ PopPacket

SpecRing == Init /\ [][NextRing]_vars

\* The ring with a thread that calls stats while packets come and go.
NextRingStats ==
    \/ \E len \in DataSizes : ReceivePacket(1, len)
    \/ PopPacket
    \/ StatsCompareFirst
    \/ StatsCompareSecond
    \/ StatsBranchFirst
    \/ StatsBranchSecond

SpecRingStats == Init /\ [][NextRingStats]_vars

\* The log buffer with every thread logging.
NextLog ==
    \/ \E t \in Loggers, text \in LogTexts, ok \in BOOLEAN : LogFormat(t, text, ok)
    \/ \E t \in Loggers : LogCommit(t)

SpecLog == Init /\ [][NextLog]_vars

\* The slab with callers that give back each address once.
NextSlab ==
    \/ Allocate
    \/ \E ptr \in Addr : Deallocate(ptr)

SpecSlab == Init /\ [][NextSlab]_vars

\* The slab with a caller that also gives back an address that is free.
NextSlabMisuse ==
    \/ Allocate
    \/ \E ptr \in Addr : Deallocate(ptr)
    \/ \E ptr \in Addr : DoubleFree(ptr)

SpecSlabMisuse == Init /\ [][NextSlabMisuse]_vars

\* ------------------------------------------------- the engine's life cycle
\* The constructor of ExecutionEngine is entered with the fan-out graph built
\* and its root queued: no thread exists yet.
StartupInit ==
    LET T == Registry(FanContexts, Len(FanContexts))
        G == [WithEdges(T, FanContexts, FanEdges) EXCEPT ![T[1]].state = "READY"]
    IN  /\ StoreInit(G, T, submit(EmptyQueues, G, T[1]), Len(FanContexts) + 1)
        /\ wpc = [w \in Workers |-> "unborn"]
        /\ running_ = TRUE
        /\ ctor_pc = "spawn"
        /\ dtor_pc = "idle"
        /\ spawned = 0
        /\ arrived = 0
        /\ joined = 0

NextStartup ==
    \/ CtorSpawn
    \/ CtorArrive
    \/ CtorReturn
    \/ \E w \in Workers : WorkerArrive(w)
    \/ \E w \in Workers : WorkerPass(w)
    \/ \E w \in Workers : LoopCheck(w)
    \/ \E w \in Workers : GetNextProbe(w)
    \/ \E w \in Workers : Dispatch(w)
    \/ \E w \in Workers, o \in WorkOutcomes : Finish(w, o)
    \/ \E w \in Workers : CompleteTask(w)
    \/ \E w \in Workers : Resubmit(w)

SpecStartup == StartupInit /\ [][NextStartup]_vars

\* The engine running the fan-out graph is destroyed at any moment.
NextShutdown ==
    \/ Shutdown
    \/ Join
    \/ DtorReturn
    \/ \E w \in Workers : LoopCheck(w)
    \/ \E w \in Workers : GetNextProbe(w)
    \/ \E w \in Workers : Dispatch(w)
    \/ \E w \in Workers, o \in WorkOutcomes : Finish(w, o)
    \/ \E w \in Workers : CompleteTask(w)
    \/ \E w \in Workers : Resubmit(w)

\* Every step worker w can take (a task body that is running ends).
WorkerStep(w) ==
    \/ LoopCheck(w)
    \/ GetNextProbe(w)
    \/ Dispatch(w)
    \/ \E o \in WorkOutcomes : Finish(w, o)
    \/ CompleteTask(w)
    \/ Resubmit(w)

\* Threads that can run do run: the workers and the destructor's joins.
SpecShutdown ==
    /\ FanInit
    /\ [][NextShutdown]_vars
    /\ \A w \in Workers : WF_vars(WorkerStep(w))
    /\ WF_vars(Join)
    /\ WF_vars(DtorReturn)

\* ------------------------------------------------ concurrent submit_task
\* Two threads inside submit_task at once, in every interleaving of its steps.
NextIds ==
    \/ \E c \in AllCallers, p \in Priorities : SubmitTaskBegin(c, p, WorkOutcomes)
    \/ \E c \in AllCallers : SubmitTaskAdd(c)
    \/ \E c \in AllCallers : SubmitTaskReady(c)
    \/ \E c \in AllCallers : SubmitTaskSubmit(c)

SpecIds == Init /\ [][NextIds]_vars

\* -------------------------------------------------- edges that close a cycle
\* The kernel with add_dependency between any two ids, a task and itself
\* included.
NextCycle ==
    \/ \E c \in Callers, p \in Priorities : SubmitTaskBegin(c, p, WorkOutcomes)
    \/ \E c \in Callers : SubmitTaskAdd(c)
    \/ \E c \in Callers : SubmitTaskReady(c)
    \/ \E c \in Callers : SubmitTaskSubmit(c)
    \/ \E parent \in Ids, child \in Ids : AddDependency(parent, child)
    \/ \E w \in Workers : LoopCheck(w)
    \/ \E w \in Workers : GetNextProbe(w)
    \/ \E w \in Workers : Dispatch(w)
    \/ \E w \in Workers, o \in WorkOutcomes : Finish(w, o)
    \/ \E w \in Workers : CompleteTask(w)
    \/ \E w \in Workers : Resubmit(w)

SpecCycle == Init /\ [][NextCycle]_vars

\* ------------------------------------------------------------------ claims
Handles == 1..Len(ctx)
Range(f) == {f[x] : x \in DOMAIN f}
\* The band of a priority as the specification states it.
Rank(p) ==
    CASE p = "REALTIME" -> 0
      [] p = "HIGH"     -> 1
      [] p = "NORMAL"   -> 2
      [] p = "LOW"      -> 3
\* Occurrences of handle h in the sequence q.
Count(q, h) == Cardinality({k \in DOMAIN q : q[k] = h})
\* Worker w's get_next returns a task, or nothing, in this step.
Obtains(w) == wpc[w] = "scan" /\ wpc'[w] = "got"
ReturnsNothing(w) == wpc[w] = "scan" /\ wband[w] = 3 /\ wpc'[w] = "loop" /\ wband'[w] = 0
\* The call of work() by worker w ends in this step.
FinishStep(w) == wpc[w] = "run" /\ (wpc'[w] # "run" \/ terminated')

\* C1: dependency order.  Whenever a worker sets a task to RUNNING and invokes
\* its work, every parent registered for that task by add_dependency has
\* already reached COMPLETED or FAILED.
C1_DependencyOrder ==
    [][\A h \in Handles :
          runs'[h] > runs[h] =>
              \A parent \in Range(ctx[h].dependencies) :
                  ctx[tasks_[parent]].state \in Terminal]_vars

\* C2: no double dispatch.  The work closure of every task is invoked at most
\* once.
C2_NoDoubleDispatch == \A h \in Handles : runs[h] <= 1

\* C3: a task context occurs at most once in total across the four queues.
C3_AtMostOnceInQueues ==
    \A h \in Handles :
        Count(queues_[0], h) + Count(queues_[1], h)
            + Count(queues_[2], h) + Count(queues_[3], h) <= 1

\* The handles queued in any band.
Queued == UNION {Range(queues_[b]) : b \in Bands}
NonEmptyBands == {b \in Bands : queues_[b] # <<>>}
LowestNonEmpty == CHOOSE b \in NonEmptyBands : \A y \in NonEmptyBands : b <= y

\* C4: a get_next that no submit overlaps removes and returns the head of the
\* lowest-index non-empty queue, that queue being the band of the task's
\* priority (REALTIME 0, HIGH 1, NORMAL 2, LOW 3), and leaves the other queues
\* unchanged; it returns nothing exactly when all four queues are empty.
C4_GetNextLowestBand ==
    [][\A w \in Workers :
          ~overlap[w] =>
              /\ Obtains(w) =>
                    /\ NonEmptyBands # {}
                    /\ wtask'[w] = Head(queues_[LowestNonEmpty])
                    /\ queues_' = [queues_ EXCEPT ![LowestNonEmpty] = Tail(@)]
                    /\ Rank(ctx[wtask'[w]].priority) = LowestNonEmpty
              /\ ReturnsNothing(w) => (NonEmptyBands = {} /\ queues_' = queues_)]_vars

\* A get_next that no submit overlapped has returned the head of band 1 or
\* lower, past empty bands, and a queue of lower priority still holds a task.
C4_Witness ==
    \E w \in Workers :
        /\ wpc[w] = "got"
        /\ ~overlap[w]
        /\ Rank(ctx[wtask[w]].priority) >= 1
        /\ \E b \in Bands : b > Rank(ctx[wtask[w]].priority) /\ queues_[b] # <<>>

\* C5 as stated: whenever a worker obtains a task from get_next, no task of
\* strictly higher priority is queued at that instant, whatever submits
\* interleave with the scan.
C5_PriorityDominance ==
    [][\A w \in Workers :
          Obtains(w) =>
              \A h \in Queued :
                  Rank(ctx[h].priority) >= Rank(ctx[wtask'[w]].priority)]_vars

\* C5 amended: whenever a worker obtains a task from get_next and no submit to
\* a band its scan had already probed completed during that scan, no task of
\* strictly higher priority is queued at that instant.
C5_DominanceUnlessLateSubmit ==
    [][\A w \in Workers :
          (Obtains(w) /\ ~late[w]) =>
              \A h \in Queued :
                  Rank(ctx[h].priority) >= Rank(ctx[wtask'[w]].priority)]_vars

\* A submit overlapped the scan, to a band the scan had not yet probed, and
\* the worker obtained a task while a task of lower priority is queued.
C5_Witness ==
    \E w \in Workers :
        /\ wpc[w] = "got"
        /\ overlap[w]
        /\ ~late[w]
        /\ \E h \in Queued : Rank(ctx[h].priority) > Rank(ctx[wtask[w]].priority)

\* Number of invocations of the tasks of band b so far.
RECURSIVE DispatchedFrom(_, _)
DispatchedFrom(b, n) ==
    IF n = 0 THEN 0
    ELSE (IF Rank(ctx[n].priority) = b THEN runs[n] ELSE 0) + DispatchedFrom(b, n - 1)

\* C6: FIFO within a band.  Each queue holds, in the order their submits
\* completed, exactly the tasks submitted to its band and not yet returned;
\* get_next returns the tasks of a band in that order; and with one worker
\* the tasks of a band are dispatched in that order.
C6_FifoWithinBand ==
    [][/\ \A b \in Bands :
              queues_'[b] = SubSeq(subSeq'[b], ngot'[b] + 1, Len(subSeq'[b]))
       /\ \A w \in Workers :
              Obtains(w) =>
                  LET b == Rank(ctx[wtask'[w]].priority)
                  IN  /\ ngot[b] < Len(subSeq[b])
                      /\ wtask'[w] = subSeq[b][ngot[b] + 1]
       /\ threads = 1 =>
              \A h \in Handles :
                  runs'[h] > runs[h] =>
                      LET b == Rank(ctx[h].priority)
                          n == DispatchedFrom(b, Len(ctx))
                      IN  /\ n < Len(subSeq[b])
                          /\ h = subSeq[b][n + 1]]_vars

\* A single worker has dispatched two tasks that were submitted to one band.
C6_Witness ==
    /\ threads = 1
    /\ \E b \in Bands :
          /\ Len(subSeq[b]) >= 2
          /\ ngot[b] >= 2
          /\ runs[subSeq[b][1]] = 1
          /\ runs[subSeq[b][2]] = 1

\* C7: failure containment.  Whatever a task's work raises, the worker that
\* ran it sets the task FAILED and goes on to complete_task and further
\* tasks; the process is not stopped.
C7_FailureContained ==
    [][\A w \in Workers :
          (FinishStep(w) /\ outcome'[wtask[w]] \in Failures) =>
              /\ ctx'[wtask[w]].state = "FAILED"
              /\ wpc'[w] = "complete"
              /\ ~terminated']_vars

\* Nothing is left to do: the process is gone, or no caller is inside
\* submit_task, every queue is empty and every worker is scanning for work.
Quiescent ==
    \/ terminated
    \/ /\ Queued = {}
       /\ \A c \in Callers : cpc[c] = "idle"
       /\ \A w \in 1..threads : wpc[w] \in {"loop", "scan"} /\ new_ready[w] = <<>>

\* C8: in the diamond A -> {B, C} -> D where B succeeds and C fails, D's work
\* runs at most once, and when nothing is left to do D's work has run exactly
\* once, A is COMPLETED, C is FAILED, and D is COMPLETED exactly if its own
\* work returned.
C8_DiamondWithFailure ==
    /\ runs[4] <= 1
    /\ Quiescent =>
          /\ runs[4] = 1
          /\ ctx[1].state = "COMPLETED"
          /\ ctx[3].state = "FAILED"
          /\ (ctx[4].state = "COMPLETED" <=> outcome[4] = "returns")

RECURSIVE TotalRuns(_)
TotalRuns(n) == IF n = 0 THEN 0 ELSE runs[n] + TotalRuns(n - 1)

\* C9: in the fan-out of one parent with k dependents, when nothing is left
\* to do every task whose dependencies have all reached a terminal state has
\* been dispatched, and the total number of dispatches is exactly k + 1.
C9_FanOutDispatched ==
    Quiescent =>
        /\ \A h \in Handles :
              (\A parent \in Range(ctx[h].dependencies) :
                    ctx[tasks_[parent]].state \in Terminal) => runs[h] >= 1
        /\ TotalRuns(Len(ctx)) = MaxFan + 1

\* C10: an add_task whose id is already registered leaves the registry and
\* every context registered before it unchanged.
C10_DuplicateIdRejected ==
    [][(Len(ctx') = Len(ctx) + 1 /\ Registered(tasks_, ctx'[Len(ctx')].id)) =>
          /\ tasks_' = tasks_
          /\ \A h \in Handles : ctx'[h] = ctx[h]]_vars

\* C11: add_dependency(parent, child) with an unregistered parent or child
\* reports UNKNOWN_TASK to its caller and changes no task's dependents,
\* dependencies, counter or state.
C11_UnknownTaskReported ==
    [][(/\ graph_ret' # graph_ret
        /\ ~(Registered(tasks_, graph_ret'.parent) /\ Registered(tasks_, graph_ret'.child)))
       => (graph_ret'.result = "UNKNOWN_TASK" /\ ctx' = ctx)]_vars

\* C12: terminal states are absorbing: once a task is COMPLETED or FAILED no
\* step changes its state.
C12_TerminalAbsorbing ==
    [][\A h \in Handles :
          ctx[h].state \in Terminal => ctx'[h].state = ctx[h].state]_vars

\* C13: every task held in a scheduler queue has state READY and
\* unsatisfied-dependency count 0.
C13_QueuedAreReady ==
    \A h \in Queued : ctx[h].state = "READY" /\ ctx[h].unsatisfied_deps = 0

Max(a, b) == IF a >= b THEN a ELSE b
\* This step is a call of receive_packet.
ReceiveStep == rx_nrecv' = rx_nrecv + 1
\* This step is a call of pop_packet (a second pop of the empty ring in a row
\* changes nothing at all).
PopStep == net_ret'.op = "pop_packet" /\ (net_ret' # net_ret \/ rx_npop' # rx_npop)

\* C14: ring drop-on-full.  From the empty ring of capacity C, N calls of
\* receive_packet with no pop store exactly min(N, C-1) packets (in the
\* slots 0.., in order) and drop max(0, N-(C-1)); the depth afterwards is
\* min(N, C-1); a call that drops leaves head, tail and every slot unchanged.
C14_DropOnFull ==
    [][ReceiveStep =>
        /\ (rx_ndrop' = rx_ndrop + 1 =>
               rx_head_' = rx_head_ /\ rx_tail_' = rx_tail_ /\ rx_ring_' = rx_ring_)
        /\ (rx_npop' = 0 =>
               /\ Len(rx_accepted') = Min(rx_nrecv', RingSize - 1)
               /\ rx_ndrop' = Max(0, rx_nrecv' - (RingSize - 1))
               /\ (rx_head_' - rx_tail_') % RingSize = Min(rx_nrecv', RingSize - 1)
               /\ \A i \in 1..Len(rx_accepted') : rx_ring_'[i - 1] = rx_accepted'[i])]_vars
\* The ring was filled and two more packets were dropped, with no pop.
C14_Witness ==
    rx_npop = 0 /\ rx_ndrop >= 2 /\ Len(rx_accepted) = RingSize - 1
    /\ net_ret.result = "dropped"

\* C15: pop_packet on the empty ring (head == tail, which is the case exactly
\* when every accepted packet was popped) returns empty and moves neither
\* index; otherwise it returns the oldest packet accepted and not yet popped
\* and advances tail by one modulo the capacity.
C15_PopOrder ==
    [][PopStep =>
        /\ (rx_head_ = rx_tail_) <=> (rx_npop = Len(rx_accepted))
        /\ IF rx_head_ = rx_tail_
           THEN net_ret'.result = "nullopt" /\ rx_head_' = rx_head_ /\ rx_tail_' = rx_tail_
           ELSE /\ net_ret'.result = "packet"
                /\ net_ret'.packet = rx_accepted[rx_npop + 1]
                /\ rx_tail_' = (rx_tail_ + 1) % RingSize
                /\ rx_head_' = rx_head_]_vars
\* More packets than the ring has slots were popped, between receives, and
\* the last two popped differ.
C15_Witness ==
    /\ net_ret.op = "pop_packet" /\ net_ret.result = "packet"
    /\ rx_npop > RingSize
    /\ net_ret.packet = rx_accepted[rx_npop]
    /\ rx_accepted[rx_npop] # rx_accepted[rx_npop - 1]

\* C16: head and tail stay in 0..capacity-1; (head - tail) mod capacity is
\* the number of packets accepted minus the number popped; the expression
\* of stats computes that value from any head and tail; and the depth stats
\* computes lies between 0 and capacity - 1.
C16_DepthInvariant ==
    /\ rx_head_ \in 0..(RingSize - 1)
    /\ rx_tail_ \in 0..(RingSize - 1)
    /\ (rx_head_ - rx_tail_) % RingSize = Len(rx_accepted) - rx_npop
    /\ \A h \in 0..(RingSize - 1), t \in 0..(RingSize - 1) :
          stats_value(stats_branch(h, t), h, t) = (h - t) % RingSize
    /\ stats_count \in 0..(RingSize - 1)

\* The last n elements of the sequence q (all of it when it is shorter).
LastN(q, n) == SubSeq(q, Len(q) - Min(n, Len(q)) + 1, Len(q))
\* This step is a push into the log buffer.
LogStep == log_commits' # log_commits

\* C17: log eviction.  The buffer never holds more than its capacity; it
\* holds the last `capacity` entries committed (all of them while there are
\* fewer), in the order of the commits; a push at capacity evicts exactly the
\* oldest entry.
C17_LogEviction ==
    [][LogStep =>
        /\ Len(buffer_') <= LogCapacity
        /\ buffer_' = LastN(log_commits', LogCapacity)
        /\ (Len(buffer_) = LogCapacity =>
               buffer_' = Append(Tail(buffer_), log_commits'[Len(log_commits')]))]_vars
\* More than capacity entries were committed, by both threads, and the
\* entry evicted last differs from the oldest one kept.
C17_Witness ==
    /\ Len(log_commits) > LogCapacity + 1
    /\ Len(buffer_) = LogCapacity
    /\ log_commits[Len(log_commits) - LogCapacity] # buffer_[1]
    /\ \E i \in DOMAIN buffer_ : buffer_[i].thread # buffer_[1].thread

\* The number of allocations not yet given back, over the addresses 1..n.
RECURSIVE LiveCount(_)
LiveCount(n) == IF n = 0 THEN 0 ELSE slab_live[n] + LiveCount(n - 1)
\* This step is a call of allocate.
AllocStep == slab_nalloc' = slab_nalloc + 1

\* C18: slab round trip.  In every state stats_used (allocated_objects_) is
\* the number of addresses handed out and not yet deallocated, so that it is
\* back at its first value once every address returned has been given back.
C18_SlabRoundTrip ==
    /\ allocated_objects_ = LiveCount(MaxPages * BlocksPerPage)
    /\ ((\A a \in Addr : slab_live[a] = 0) => allocated_objects_ = 0)
\* Allocations that made the slab add a page were all given back.
C18_Witness ==
    /\ slab_ret.op = "deallocate"
    /\ pages_ >= 2
    /\ slab_nalloc > BlocksPerPage
    /\ \A a \in Addr : slab_live[a] = 0
    /\ allocated_objects_ = 0

\* C19: slab unique ownership.  allocate never returns an address that is
\* live (returned before and not yet deallocated), also when it has to add a
\* page; the address is a slot of a page the slab owns.
C19_UniqueOwnership ==
    [][AllocStep =>
        /\ slab_ret'.ptr \in 1..(pages_' * BlocksPerPage)
        /\ slab_live[slab_ret'.ptr] = 0
        /\ \A a \in Addr : slab_live'[a] <= 1]_vars
\* allocate has just added a page while every slot of the first was live, and
\* an address given back earlier is live again.
C19_Witness ==
    /\ slab_ret.op = "allocate"
    /\ pages_ >= 2
    /\ slab_ret.ptr = PageStart(2)
    /\ \A a \in 1..BlocksPerPage : slab_live[a] = 1
    /\ slab_nalloc > BlocksPerPage + 1

\* C20: a double free (deallocate of an address on the free list) halts the
\* process; no address is ever handed out to two live allocations and the
\* live count is never wrong.
C20_DoubleFreeHalts ==
    /\ (slab_ndouble > 0 => terminated)
    /\ \A a \in Addr : slab_live[a] <= 1
    /\ allocated_objects_ = LiveCount(MaxPages * BlocksPerPage)

\* C21: shutdown.  After running_ is cleared a worker exits only from the
\* test of the loop, with the task it was running finished and the dependents
\* that task released handed to the scheduler; a worker that has exited
\* starts nothing; and when every task body ends the destructor's joins
\* complete.
C21_Shutdown ==
    /\ [][\A w \in Workers :
            /\ (wpc[w] = "exited" => wpc'[w] = "exited")
            /\ ((wpc'[w] = "exited" /\ wpc[w] # "exited") =>
                   (~running_ /\ wpc[w] = "loop" /\ wtask[w] = NoTask
                    /\ new_ready[w] = <<>>))]_vars
    /\ (~running_ ~> dtor_pc = "done")

\* C22: engine start-up.  The constructor returns only after all the worker
\* threads have started and arrived at the barrier, and no worker is past the
\* barrier (so none has taken a task) before every worker and the
\* constructor have arrived.
AllArrived ==
    /\ ctor_pc \in {"barrier", "done"}
    /\ spawned = threads
    /\ \A w \in 1..threads : wpc[w] \notin {"unborn", "boot"}
C22_StartupBarrier ==
    /\ (ctor_pc = "done" => AllArrived)
    /\ ((\E w \in Workers : wpc[w] \notin {"unborn", "boot", "barrier"}) => AllArrived)
    /\ ((\E b \in Bands : ngot[b] > 0) => AllArrived)
\* A worker has taken the queued task while another worker, arrived, is still
\* inside arrive_and_wait and the constructor has not returned yet.
C22_Witness ==
    /\ threads = NWorkers
    /\ ctor_pc = "barrier"
    /\ \E b \in Bands : ngot[b] > 0
    /\ \E w \in Workers : wpc[w] = "barrier"

\* C23: task ids are unique and monotonic.  The contexts are numbered in the
\* order of their fetch_add: their ids are non-zero and strictly increasing,
\* and every context whose add_task has returned is the one registered under
\* its id.
C23_IdsUniqueMonotonic ==
    /\ \A h \in Handles : ctx[h].id # 0
    /\ \A h1 \in Handles, h2 \in Handles : h1 < h2 => ctx[h1].id < ctx[h2].id
    /\ \A i \in DOMAIN tasks_ : ctx[tasks_[i]].id = i
    /\ \A h \in Handles :
          h \notin {ctask[c] : c \in {d \in AllCallers : cpc[d] = "add_task"}}
          => (Registered(tasks_, ctx[h].id) /\ tasks_[ctx[h].id] = h)
\* Two threads are inside submit_task at once, both past their fetch_add.
C23_Witness ==
    /\ cpc["main"] # "idle"
    /\ cpc["shell"] # "idle"
    /\ ctask["main"] > ctask["shell"]
    /\ cpc["main"] = "submit"

\* The handles of the dependents of h in the graph C, T.
Succ(C, T, h) == {T[d] : d \in Range(C[h].dependents)}
\* The handles reached from the set S along at most n edges.
RECURSIVE ReachN(_, _, _, _)
ReachN(C, T, S, n) ==
    IF n = 0 THEN S
    ELSE ReachN(C, T, S \cup UNION {Succ(C, T, h) : h \in S}, n - 1)
\* Task h lies on a cycle of dependency edges.
OnCycle(C, T, h) == h \in ReachN(C, T, Succ(C, T, h), Len(C))

\* C24: a task on a cycle of dependency edges is BLOCKED, stays BLOCKED, and
\* its work is never invoked.
C24_CycleStaysBlocked ==
    [][\A h \in Handles :
          /\ (OnCycle(ctx', tasks_', h) => ctx'[h].state = "BLOCKED")
          /\ (OnCycle(ctx, tasks_, h) => runs'[h] = runs[h])]_vars

\* C27: the unsatisfied-dependency count of a task is never smaller than the
\* number of its parents that have not reached a terminal state.
C27_CountCoversLiveParents ==
    \A h \in Handles :
       ctx[h].unsatisfied_deps >=
          Cardinality({p \in Range(ctx[h].dependencies) :
                          ctx[tasks_[p]].state \notin Terminal})

\* Worker w's call of complete_task returns in this step.
CompleteStep(w) == wpc[w] = "complete" /\ wpc'[w] # "complete"

\* C25: concurrent complete_task calls for different parents of one child.
\* The call that takes the child's count from 1 to 0 returns it, in state
\* READY; a call that leaves the count above 0 does not return the child and
\* does not change its state; so exactly one of the calls returns it.
C25_FinalDecrementReleases ==
    [][\A w \in Workers : CompleteStep(w) =>
          \A d \in Range(ctx[wtask[w]].dependents) :
             /\ ctx'[tasks_[d]].unsatisfied_deps = ctx[tasks_[d]].unsatisfied_deps - 1
             /\ ctx'[tasks_[d]].unsatisfied_deps >= 0
             /\ IF ctx[tasks_[d]].unsatisfied_deps = 1
                THEN /\ Count(new_ready'[w], tasks_[d]) = 1
                     /\ ctx'[tasks_[d]].state = "READY"
                     /\ \A v \in Workers \ {w} : Count(new_ready'[v], tasks_[d]) = 0
                     /\ tasks_[d] \notin Queued
                     /\ runs[tasks_[d]] = 0
                ELSE /\ Count(new_ready'[w], tasks_[d]) = 0
                     /\ ctx'[tasks_[d]].state = ctx[tasks_[d]].state]_vars
\* Both parents of D were held by two workers at once; the first call of
\* complete_task left D blocked and the second has just returned it.
C25_Witness ==
    /\ threads = 2
    /\ \E w \in Workers : wpc[w] = "resubmit" /\ new_ready[w] = <<4>>
    /\ ctx[4].state = "READY" /\ ctx[4].unsatisfied_deps = 0
    /\ ctx[2].state \in Terminal /\ ctx[3].state \in Terminal
    /\ \E v \in Workers : wpc[v] = "loop" /\ new_ready[v] = <<>>

\* C26: a registered task whose unsatisfied-dependency count is 0 has state
\* READY, RUNNING, COMPLETED or FAILED.
C26_ZeroCountMeansUnblocked ==
    \A i \in DOMAIN tasks_ :
       ctx[tasks_[i]].unsatisfied_deps = 0
       => ctx[tasks_[i]].state \in {"READY", "RUNNING", "COMPLETED", "FAILED"}

\* C28: a task enters RUNNING only from READY and leaves RUNNING only to
\* COMPLETED or FAILED.
C28_RunningOnlyFromReady ==
    [][\A h \in Handles :
          /\ (runs'[h] > runs[h] => ctx[h].state = "READY")
          /\ ((ctx[h].state = "RUNNING" /\ ctx'[h].state # "RUNNING")
                => ctx'[h].state \in Terminal)]_vars

\* The locks alone: every thread in any call at any time.
NextLocks ==
    \E t \in LockThreads :
       \/ LockCall(t)
       \/ lock(t)
       \/ unlock(t)

SpecLocks == Init /\ [][NextLocks]_vars

\* Thread t is at a lock() whose flag is set.
Waiting(t) ==
    /\ lk_script[t] # <<>>
    /\ Head(lk_script[t]).op = "lock"
    /\ lock_owner[Head(lk_script[t]).l] # NoOwner

\* The place of a lock in the order graph-write, scheduler-queue, log-buffer;
\* 0 for the locks the order does not name.
LockRank(l) ==
    CASE l[1] = "graph" -> 1
      [] l[1] = "queue" -> 2
      [] l[1] = "log" -> 3
      [] OTHER -> 0

\* C29: lock discipline and deadlock freedom: a thread that holds a lock of
\* the order graph-write, scheduler-queue, log-buffer never holds, taken
\* later, a lock that comes earlier in it; a thread holds at most one
\* scheduler queue lock; and there is no set of threads each waiting for a
\* lock held by one of the set.
C29_LockDiscipline ==
    /\ \A t \in LockThreads :
          \A i \in DOMAIN lk_held[t], j \in DOMAIN lk_held[t] :
             (i < j /\ LockRank(lk_held[t][i]) > 0 /\ LockRank(lk_held[t][j]) > 0)
             => LockRank(lk_held[t][i]) <= LockRank(lk_held[t][j])
    /\ \A t \in LockThreads :
          Cardinality({i \in DOMAIN lk_held[t] : lk_held[t][i][1] = "queue"}) <= 1
    /\ \A D \in SUBSET LockThreads :
          D # {} =>
             \E t \in D :
                ~ (Waiting(t) /\ lock_owner[Head(lk_script[t]).l] \in D)

\* One thread is inside receive_packet with the ring's and the log's lock,
\* a second waits at the log's lock, and a third holds the lock of the last
\* scheduler queue.
C29_Witness ==
    \E t \in LockThreads, u \in LockThreads, v \in LockThreads :
       /\ lk_held[t] = <<RingLock, LogLock>>
       /\ Waiting(u) /\ Head(lk_script[u]).l = LogLock /\ lk_held[u] = <<>>
       /\ lk_held[v] = <<QueueLock(3)>>

\* C30: the unsatisfied-dependency counter never underflows: no fetch_sub is
\* applied to a counter that is 0, so no counter wraps to 2^32 - 1 (the
\* representatives below 0).
C30_NoUnderflow ==
    \A h \in Handles : ctx[h].unsatisfied_deps >= 0

====
